---- MODULE Spec2Model ----
(***************************************************************************)
(* Model of music21/musicxml/helpers.py: the canonical serializer          *)
(* (dumpString / indent), the ordered inserter (insertBeforeElements),     *)
(* the measure-number comparator (measureNumberComesBefore), the id        *)
(* synchronizer (synchronizeIdsToXML) and the generic attribute            *)
(* synchronizers (setM21AttributeFromAttribute /                           *)
(* setXMLAttributeFromAttribute).                                          *)
(*                                                                         *)
(* Python strings are sequences of one-character strings, so that          *)
(* slicing, concatenation, strip() and lexicographic comparison are        *)
(* computed, not assumed.                                                  *)
(***************************************************************************)
EXTENDS Integers, Sequences, FiniteSets, TLC

VARIABLES
    mNum1, mNum2, mNum3,        \* arguments handed to measureNumberComesBefore
    ret12, ret21, ret23, ret13, \* what each call returned ("pending" before it)
    heap,        \* the Element objects: heap[e] is the element with identity e
    xStr,        \* the string the last dumpString call returned
    basis,       \* how the caller's tree relates to the argument of that call
    permuted,    \* that call was made with basis at "attrs"
    canon,       \* the caller's tree was indented and sorted in place
    tagList,     \* the tagList argument of the last insertBeforeElements call
    xmlElAttrib, \* xmlEl.attrib of the element handed to the synchronizers
    m21Object,   \* the object handed to synchronizeIdsToXML
    m21El,       \* the fields of the object setXMLAttributeFromAttribute reads
    fresh,       \* the fields of the object setM21AttributeFromAttribute sets
    calls,       \* the synchronizer calls made so far, with their arguments
    raised,      \* the exception the last call let through ("none" if none)
    invoked      \* whether the last call invoked its transform

cmpVars == <<mNum1, mNum2, mNum3, ret12, ret21, ret23, ret13>>

treeVars == <<heap, xStr, basis, permuted, canon, tagList>>

syncVars == <<xmlElAttrib, m21Object, m21El, fresh, calls, raised, invoked>>

vars == <<cmpVars, treeVars, syncVars>>

----------------------------------------------------------------------------
(* Bounds *)

MaxLen == 3

----------------------------------------------------------------------------
(* Python str primitives *)

Digits == {"0", "2"}

Letters == {"a", "b"}

Alphabet == Digits \cup Letters

DigitChars == <<"0", "1", "2", "3", "4", "5", "6", "7", "8", "9">>

\* str.isnumeric() on one character
IsNumeric(c) == \E d \in 1..10 : DigitChars[d] = c

DigitValue(c) == (CHOOSE d \in 1..10 : DigitChars[d] = c) - 1

\* ord(c) for the characters the model uses
CodePoint(c) ==
    IF IsNumeric(c) THEN 48 + DigitValue(c)
    ELSE CASE c = "\n" -> 10
           [] c = " " -> 32
           [] c = "-" -> 45
           [] c = "_" -> 95
           [] c = "a" -> 97
           [] c = "b" -> 98
           [] c = "x" -> 120

\* every string over S of length at most n
StringsUpTo(S, n) == UNION {[1..k -> S] : k \in 0..n}

\* s < t as Python compares two str values (lexicographic by code point)
RECURSIVE StrLess(_, _)
StrLess(s, t) ==
    IF t = <<>> THEN FALSE
    ELSE IF s = <<>> THEN TRUE
    ELSE IF Head(s) = Head(t) THEN StrLess(Tail(s), Tail(t))
    ELSE CodePoint(Head(s)) < CodePoint(Head(t))

\* int(s) for a non-empty string of decimal digits (int('') raises
\* ValueError, which the callers test for before they evaluate this)
RECURSIVE DigitsToInt(_)
DigitsToInt(s) ==
    IF s = <<>> THEN 0
    ELSE 10 * DigitsToInt(SubSeq(s, 1, Len(s) - 1)) + DigitValue(s[Len(s)])

----------------------------------------------------------------------------
(* Python values, objects and attribute dicts *)

PyNone == [t |-> "NoneType", v |-> 0]

PyInt(n) == [t |-> "int", v |-> n]

PyBool(b) == [t |-> "bool", v |-> b]

PyStr(s) == [t |-> "str", v |-> s]

\* a == b as Python compares: bool is a subtype of int (True == 1)
PyEq(a, b) ==
    IF a.t \in {"int", "bool"} /\ b.t \in {"int", "bool"}
    THEN (IF a.t = "bool" THEN (IF a.v THEN 1 ELSE 0) ELSE a.v)
           = (IF b.t = "bool" THEN (IF b.v THEN 1 ELSE 0) ELSE b.v)
    ELSE a = b

\* an object's field: has is false when the object has no such attribute
NoField == [has |-> FALSE, val |-> PyNone]

Field(val) == [has |-> TRUE, val |-> val]

\* an entry of xmlEl.attrib: set is false when the element has no such key
NoAttr == [set |-> FALSE, v |-> <<>>]

Attr(s) == [set |-> TRUE, v |-> s]

idAttr == <<"i", "d">>

pageNumberAttr == <<"p", "a", "g", "e", "-", "n", "u", "m", "b", "e", "r">>

newPageAttr == <<"n", "e", "w", "-", "p", "a", "g", "e">>

pageNumber == <<"p", "a", "g", "e", "N", "u", "m", "b", "e", "r">>

newPage == <<"n", "e", "w", "P", "a", "g", "e">>

isNew == <<"i", "s", "N", "e", "w">>

AttrNames == {idAttr, pageNumberAttr, newPageAttr}

FieldNames == {pageNumber, newPage, isNew}

\* no synchronizer call was made
NoCall == [made |-> FALSE, seq |-> 0, attr |-> <<>>, field |-> <<>>,
           named |-> FALSE, transform |-> "None"]

NoObject == [kind |-> "None", hasId |-> FALSE, id |-> PyNone]

\* the variables of the components a specification does not exercise
IdleCompare ==
    /\ mNum1 = <<>> /\ mNum2 = <<>> /\ mNum3 = <<>>
    /\ ret12 = "pending" /\ ret21 = "pending"
    /\ ret23 = "pending" /\ ret13 = "pending"

IdleTree ==
    /\ heap = <<>>
    /\ xStr = <<>>
    /\ basis = "none"
    /\ permuted = FALSE
    /\ canon = FALSE
    /\ tagList = [given |-> FALSE, tags |-> <<>>]

IdleSync ==
    /\ xmlElAttrib = [a \in AttrNames |-> NoAttr]
    /\ m21Object = NoObject
    /\ m21El = [f \in FieldNames |-> NoField]
    /\ fresh = [f \in FieldNames |-> NoField]
    /\ calls = [ids |-> FALSE, push |-> NoCall, pull |-> NoCall]
    /\ raised = "none"
    /\ invoked = FALSE

----------------------------------------------------------------------------
(* measureNumberComesBefore *)

\* the loop of splitSuffix: number grows while the characters are numeric
RECURSIVE NumericRun(_)
NumericRun(measureNumber) ==
    IF measureNumber = <<>> THEN <<>>
    ELSE IF IsNumeric(Head(measureNumber))
         THEN <<Head(measureNumber)>> \o NumericRun(Tail(measureNumber))
         ELSE <<>>

splitSuffix(measureNumber) ==
    LET number == NumericRun(measureNumber)
        suffix == SubSeq(measureNumber, Len(number) + 1, Len(measureNumber))
    IN  [number |-> number, suffix |-> suffix]

\* sorted([x, y]) on two objects: stable, so x stays first unless y < x.
\* Objects carry an identity (obj) next to their value (val).
sortedPair(x, y) ==
    IF StrLess(y.val, x.val) THEN <<y, x>> ELSE <<x, y>>

\* mutant of measureNumberComesBefore: compares the numeric parts as strings
measureNumberComesBefore_strcmp(m1, m2) ==
    IF m1 = m2 THEN "False"
    ELSE LET s1 == splitSuffix(m1)
             s2 == splitSuffix(m2)
         IN  IF s1.number = <<>> \/ s2.number = <<>> THEN "ValueError"
             ELSE IF s1.number # s2.number
                  THEN (IF StrLess(s1.number, s2.number) THEN "True" ELSE "False")
                  ELSE (IF ~StrLess(s2.suffix, s1.suffix) THEN "True" ELSE "False")

\* mutant of measureNumberComesBefore: an empty numeric part counts as 0
measureNumberComesBefore_zero(m1, m2) ==
    IF m1 = m2 THEN "False"
    ELSE LET s1 == splitSuffix(m1)
             s2 == splitSuffix(m2)
         IN  IF DigitsToInt(s1.number) # DigitsToInt(s2.number)
             THEN (IF DigitsToInt(s1.number) < DigitsToInt(s2.number)
                   THEN "True" ELSE "False")
             ELSE (IF ~StrLess(s2.suffix, s1.suffix) THEN "True" ELSE "False")

\* returns "True" / "False", or "ValueError" when int('') raises
measureNumberComesBefore(m1, m2) ==
    IF m1 = m2 THEN "False"
    ELSE LET s1 == splitSuffix(m1)
             s2 == splitSuffix(m2)
             m1Suffix == [obj |-> 1, val |-> s1.suffix]
             m2Suffix == [obj |-> 2, val |-> s2.suffix]
         IN  IF s1.number = <<>> \/ s2.number = <<>> THEN "ValueError"
             ELSE IF DigitsToInt(s1.number) # DigitsToInt(s2.number)
                  THEN (IF DigitsToInt(s1.number) < DigitsToInt(s2.number)
                        THEN "True" ELSE "False")
                  ELSE LET sortedSuffixes == sortedPair(m1Suffix, m2Suffix)
                       IN  IF m1Suffix.obj = sortedSuffixes[1].obj
                           THEN "True" ELSE "False"

MeasureStrings == StringsUpTo(Alphabet, MaxLen)

\* identifiers with a non-empty numeric prefix
HasNumericPrefix(s) == splitSuffix(s).number # <<>>

ValidMeasureStrings == {s \in MeasureStrings : HasNumericPrefix(s)}

\* one call on each ordered pair
InitCompare ==
    /\ mNum1 \in MeasureStrings
    /\ mNum2 \in MeasureStrings
    /\ mNum3 = <<>>
    /\ ret12 = "pending" /\ ret21 = "pending"
    /\ ret23 = "pending" /\ ret13 = "pending"
    /\ IdleTree
    /\ IdleSync

Compare12 ==
    /\ ret12 = "pending"
    /\ ret12' = measureNumberComesBefore(mNum1, mNum2)
    /\ UNCHANGED <<mNum1, mNum2, mNum3, ret21, ret23, ret13, treeVars, syncVars>>

Compare21 ==
    /\ ret12 # "pending" /\ ret21 = "pending"
    /\ ret21' = measureNumberComesBefore(mNum2, mNum1)
    /\ UNCHANGED <<mNum1, mNum2, mNum3, ret12, ret23, ret13, treeVars, syncVars>>

Compare23 ==
    /\ ret21 # "pending" /\ ret23 = "pending"
    /\ ret23' = measureNumberComesBefore(mNum2, mNum3)
    /\ UNCHANGED <<mNum1, mNum2, mNum3, ret12, ret21, ret13, treeVars, syncVars>>

Compare13 ==
    /\ ret23 # "pending" /\ ret13 = "pending"
    /\ ret13' = measureNumberComesBefore(mNum1, mNum3)
    /\ UNCHANGED <<mNum1, mNum2, mNum3, ret12, ret21, ret23, treeVars, syncVars>>

NextCompare == Compare12

SpecCompare == InitCompare /\ [][NextCompare]_vars

\* the calls precedes(x,y), precedes(y,x), precedes(y,z), precedes(x,z)
\* on three identifiers with a numeric prefix
InitOrder ==
    /\ mNum1 \in ValidMeasureStrings
    /\ mNum2 \in ValidMeasureStrings
    /\ mNum3 \in ValidMeasureStrings
    /\ ret12 = "pending" /\ ret21 = "pending"
    /\ ret23 = "pending" /\ ret13 = "pending"
    /\ IdleTree
    /\ IdleSync

NextOrder == Compare12 \/ Compare21 \/ Compare23 \/ Compare13

SpecOrder == InitOrder /\ [][NextOrder]_vars

----------------------------------------------------------------------------
(* Claims on measureNumberComesBefore *)

\* C1: measureNumberComesBefore is a strict total order on identifiers with
\* a non-empty numeric prefix: exactly one of precedes(x,y), precedes(y,x),
\* x = y holds, and precedes(x,y) with precedes(y,z) gives precedes(x,z).
C1_StrictTotalOrder ==
    /\ (ret21 # "pending") =>
          \/ (ret12 = "True" /\ ret21 # "True" /\ mNum1 # mNum2)
          \/ (ret12 # "True" /\ ret21 = "True" /\ mNum1 # mNum2)
          \/ (ret12 # "True" /\ ret21 # "True" /\ mNum1 = mNum2)
    /\ (ret13 # "pending" /\ ret12 = "True" /\ ret23 = "True") => ret13 = "True"

\* C2: when the integer values of the two numeric prefixes differ the call
\* returns true exactly when the first is smaller, whatever the suffixes;
\* on equal strings it returns false.
C2_NumericDecides ==
    (ret12 # "pending") =>
        /\ (mNum1 = mNum2) => ret12 = "False"
        /\ ( /\ HasNumericPrefix(mNum1) /\ HasNumericPrefix(mNum2)
             /\ DigitsToInt(splitSuffix(mNum1).number)
                  # DigitsToInt(splitSuffix(mNum2).number) )
           => (ret12 = "True" <=>
                 DigitsToInt(splitSuffix(mNum1).number)
                   < DigitsToInt(splitSuffix(mNum2).number))
           /\ ret12 \in {"True", "False"}

\* the call on '2a' and '00b' returned: the integers 2 and 0 differ, the
\* suffixes are ordered the other way, and the longer string is the smaller
C2_Witness ==
    /\ ret12 = "False"
    /\ mNum1 = <<"2", "a">>
    /\ mNum2 = <<"0", "0", "b">>

\* C10 as stated: every pair with a malformed operand raises, equal or not
C10_AlwaysRaises ==
    (ret12 # "pending" /\ (~HasNumericPrefix(mNum1) \/ ~HasNumericPrefix(mNum2)))
        => ret12 = "ValueError"

\* C10 amended: a malformed operand makes the call raise ValueError unless
\* the two strings are equal, in which case the call returns False
C10_RaisesUnlessEqual ==
    (ret12 # "pending" /\ (~HasNumericPrefix(mNum1) \/ ~HasNumericPrefix(mNum2)))
        => ret12 = (IF mNum1 = mNum2 THEN "False" ELSE "ValueError")

C10_Witness ==
    /\ ret12 = "ValueError"
    /\ mNum1 = <<"2", "a">>
    /\ mNum2 = <<"a", "2">>

----------------------------------------------------------------------------
(* xml.etree.ElementTree.Element objects *)

\* An Element is [tag, text, tail, attrib, children].  text and tail are
\* strings, None and '' both being the empty sequence (the code and the
\* serializer only ever test them for truth); attrib is the dict as the
\* sequence of its (name, value) items in insertion order; children is the
\* sequence of the identities of the child elements.

MaxNodes == 3

Element(tag, text, tail, attrib, children) ==
    [tag |-> tag, text |-> text, tail |-> tail, attrib |-> attrib,
     children |-> children]

\* is a an ancestor of k, or k itself, under the parent map p
RECURSIVE IsAncestorOrSelf(_, _, _)
IsAncestorOrSelf(p, a, k) ==
    IF a = k THEN TRUE
    ELSE IF k = 1 THEN FALSE
    ELSE IsAncestorOrSelf(p, a, p[k])

\* parent maps of the ordered trees on n nodes numbered in document order
ParentMaps(n) ==
    {p \in [2..n -> 1..n] :
        \A k \in 2..n : p[k] < k /\ IsAncestorOrSelf(p, p[k], k - 1)}

RECURSIVE ChildrenFrom(_, _, _, _)
ChildrenFrom(p, e, k, n) ==
    IF k > n THEN <<>>
    ELSE (IF p[k] = e THEN <<k>> ELSE <<>>) \o ChildrenFrom(p, e, k + 1, n)

\* every tree of n elements whose (tag, text, tail, attrib) are drawn from
\* the given set; element 1 is the root
Trees(n, fields) ==
    {[e \in 1..n |->
         Element(d[e][1], d[e][2], d[e][3], d[e][4], ChildrenFrom(p, e, 2, n))] :
       p \in ParentMaps(n),
       d \in [1..n -> fields]}

\* c.isspace()
IsSpace(c) == c \in {" ", "\n"}

\* not s or not s.strip()
Blank(s) == \A k \in 1..Len(s) : IsSpace(s[k])

\* level * '  '
RECURSIVE Spaces(_)
Spaces(level) == IF level = 0 THEN <<>> ELSE <<" ", " ">> \o Spaces(level - 1)

----------------------------------------------------------------------------
(* indent *)

setTail(h, elem, s) == [h EXCEPT ![elem].tail = s]

RECURSIVE indent(_, _, _)
RECURSIVE indentEach(_, _, _)

\* for subElem in elem: indent(subElem, level + 1)
indentEach(h, subElems, level) ==
    IF subElems = <<>> THEN h
    ELSE indentEach(indent(h, Head(subElems), level), Tail(subElems), level)

\* mutant of indent: the child-indent string is added to the text (+=)
\* where the code assigns it (=)
indent_append(h, elem, level) ==
    LET i == <<"\n">> \o Spaces(level)
        lenL == Len(h[elem].children)
    IN  IF lenL # 0
        THEN LET h1 == IF Blank(h[elem].text)
                       THEN [h EXCEPT ![elem].text = @ \o i \o <<" ", " ">>]
                       ELSE h
                 h2 == IF Blank(h1[elem].tail) THEN setTail(h1, elem, i) ELSE h1
                 h3 == indentEach(h2, h2[elem].children, level + 1)
                 subElem == h3[elem].children[lenL]
                 h4 == setTail(h3, subElem, i)
             IN  IF Blank(h4[elem].tail)
                 THEN setTail(h4, elem, <<"\n">> \o Spaces(level))
                 ELSE h4
        ELSE IF level # 0 /\ Blank(h[elem].tail)
             THEN setTail(h, elem, i)
             ELSE h

\* the heap after indent(elem, level)
indent(h, elem, level) ==
    LET i == <<"\n">> \o Spaces(level)
        lenL == Len(h[elem].children)
    IN  IF lenL # 0
        THEN LET h1 == IF Blank(h[elem].text)
                       THEN [h EXCEPT ![elem].text = i \o <<" ", " ">>]
                       ELSE h
                 h2 == IF Blank(h1[elem].tail) THEN setTail(h1, elem, i) ELSE h1
                 h3 == indentEach(h2, h2[elem].children, level + 1)
                 subElem == h3[elem].children[lenL]
                 h4 == setTail(h3, subElem, i)
             IN  IF Blank(h4[elem].tail)
                 THEN setTail(h4, elem, <<"\n">> \o Spaces(level))
                 ELSE h4
        ELSE IF level # 0 /\ Blank(h[elem].tail)
             THEN setTail(h, elem, i)
             ELSE h

----------------------------------------------------------------------------
(* dumpString *)

\* (name, value) < (name, value) as Python compares two tuples of str
ItemLess(x, y) ==
    \/ StrLess(x[1], y[1])
    \/ (x[1] = y[1] /\ StrLess(x[2], y[2]))

\* items with x put after the last item that is not greater than x
RECURSIVE InsertItem(_, _)
InsertItem(items, x) ==
    IF items = <<>> THEN <<x>>
    ELSE IF ItemLess(x, items[Len(items)])
         THEN InsertItem(SubSeq(items, 1, Len(items) - 1), x)
                \o <<items[Len(items)]>>
         ELSE Append(items, x)

\* sorted(attrib.items())
RECURSIVE sorted(_)
sorted(items) ==
    IF items = <<>> THEN <<>>
    ELSE InsertItem(sorted(SubSeq(items, 1, Len(items) - 1)), items[Len(items)])

\* list(xmlEl.iter()): the element and its descendants in document order
RECURSIVE iter(_, _)
RECURSIVE iterEach(_, _)

iterEach(h, elems) ==
    IF elems = <<>> THEN <<>>
    ELSE iter(h, Head(elems)) \o iterEach(h, Tail(elems))

iter(h, elem) == <<elem>> \o iterEach(h, h[elem].children)

\* copy.deepcopy(obj): new elements are allocated at the end of the heap
RECURSIVE deepcopy(_, _)
RECURSIVE deepcopyEach(_, _)

deepcopyEach(h, elems) ==
    IF elems = <<>> THEN [heap |-> h, elems |-> <<>>]
    ELSE LET first == deepcopy(h, Head(elems))
             rest == deepcopyEach(first.heap, Tail(elems))
         IN  [heap |-> rest.heap, elems |-> <<first.elem>> \o rest.elems]

deepcopy(h, obj) ==
    LET kids == deepcopyEach(h, h[obj].children)
    IN  [heap |-> Append(kids.heap, [h[obj] EXCEPT !.children = kids.elems]),
         elem |-> Len(kids.heap) + 1]

\* the loop over xmlEl.iter() that sorts each attrib dict of more than one item
RECURSIVE sortAttribs(_, _)
sortAttribs(h, elems) ==
    IF elems = <<>> THEN h
    ELSE LET el == Head(elems)
             attrib == h[el].attrib
         IN  sortAttribs(IF Len(attrib) > 1
                         THEN [h EXCEPT ![el].attrib = sorted(attrib)]
                         ELSE h,
                         Tail(elems))

\* The returned string is a sequence of tokens: one token per character of
\* text and tail, one per start tag (with its attributes in the order they
\* are written), empty-element tag and end tag.
Token(k, s, attrs) == [k |-> k, s |-> s, attrs |-> attrs]

Chars(s) == [k \in 1..Len(s) |-> Token("char", s[k], <<>>)]

\* ElementTree.tostring(xmlEl, encoding='unicode')
RECURSIVE et_tostring(_, _)
RECURSIVE et_tostringEach(_, _)

et_tostringEach(h, elems) ==
    IF elems = <<>> THEN <<>>
    ELSE et_tostring(h, Head(elems)) \o et_tostringEach(h, Tail(elems))

et_tostring(h, elem) ==
    LET el == h[elem]
    IN  (IF el.text # <<>> \/ Len(el.children) > 0
         THEN <<Token("start", el.tag, el.attrib)>>
                \o Chars(el.text)
                \o et_tostringEach(h, el.children)
                \o <<Token("end", el.tag, <<>>)>>
         ELSE <<Token("empty", el.tag, el.attrib)>>)
        \o Chars(el.tail)

\* xStr.rstrip()
RECURSIVE rstrip(_)
rstrip(s) ==
    IF s = <<>> THEN s
    ELSE IF s[Len(s)].k = "char" /\ IsSpace(s[Len(s)].s)
         THEN rstrip(SubSeq(s, 1, Len(s) - 1))
         ELSE s

\* mutant of dumpString: works on obj itself whatever noCopy says
dumpString_inplace(h, obj, noCopy) ==
    LET h1 == indent(h, obj, 0)
        h2 == sortAttribs(h1, iter(h1, obj))
    IN  [heap |-> h2, xStr |-> rstrip(et_tostring(h2, obj))]

\* mutant of dumpString: the attribute dicts are left in insertion order
dumpString_unsorted(h, obj, noCopy) ==
    LET c == IF noCopy THEN [heap |-> h, elem |-> obj] ELSE deepcopy(h, obj)
        h1 == indent(c.heap, c.elem, 0)
    IN  [heap |-> h1, xStr |-> rstrip(et_tostring(h1, c.elem))]

\* the heap after dumpString(obj, noCopy=noCopy) and the string it returns
dumpString(h, obj, noCopy) ==
    LET c == IF ~noCopy THEN deepcopy(h, obj) ELSE [heap |-> h, elem |-> obj]
        xmlEl == c.elem
        h1 == indent(c.heap, xmlEl, 0)
        h2 == sortAttribs(h1, iter(h1, xmlEl))
    IN  [heap |-> h2, xStr |-> rstrip(et_tostring(h2, xmlEl))]

----------------------------------------------------------------------------
(* Calls of dumpString on a caller's tree *)

\* the caller's tree is heap[1..Len(heap)], its root is element 1
root == 1

TextVals == {<<>>, <<"x">>}

TailVals == {<<>>, <<"x">>}

\* two attributes, inserted in descending order of name
TwoAttribs == << <<<<"b">>, <<"1">>>>, <<<<"a", "b">>, <<"2">>>> >>

\* the elements the trees are built from: every text and tail without
\* attributes, an element whose text is a blank, and an element with two
\* attributes
DumpFields ==
    ({"e"} \X TextVals \X TailVals \X {<<>>})
      \cup {<<"e", <<" ">>, <<>>, <<>>>>, <<"e", <<>>, <<>>, TwoAttribs>>}

InitDump ==
    /\ heap \in UNION {Trees(n, DumpFields) : n \in 1..MaxNodes}
    /\ xStr = <<>>
    /\ basis = "none"
    /\ permuted = FALSE
    /\ canon = FALSE
    /\ tagList = [given |-> FALSE, tags |-> <<>>]
    /\ IdleCompare
    /\ IdleSync

\* dumpString(obj, noCopy=noCopy); the copy, if one was made, is released
\* when the call returns
DumpString(noCopy) ==
    LET r == dumpString(heap, root, noCopy)
    IN  /\ heap' = SubSeq(r.heap, 1, Len(heap))
        /\ xStr' = r.xStr
        /\ basis' = IF noCopy THEN "indented" ELSE "same"
        /\ permuted' = (basis = "attrs")
        /\ canon' = (canon \/ noCopy)
        /\ UNCHANGED <<tagList, cmpVars, syncVars>>

DumpStringCopy == DumpString(FALSE)

DumpStringNoCopy == DumpString(TRUE)

\* the caller rebuilds one attrib dict with two adjacent items inserted in
\* the other order: same names and values, another insertion order
ReorderAttrib ==
    \E el \in 1..Len(heap) :
      \E k \in 1..(Len(heap[el].attrib) - 1) :
        /\ basis # "none"
        /\ heap' = [heap EXCEPT ![el].attrib =
                      [j \in 1..Len(@) |->
                          IF j = k THEN @[k + 1]
                          ELSE IF j = k + 1 THEN @[k]
                          ELSE @[j]]]
        /\ basis' = (CASE basis = "none" -> "none"
                       [] basis \in {"same", "attrs"} -> "attrs"
                       [] OTHER -> "other")
        /\ canon' = FALSE
        /\ UNCHANGED <<xStr, permuted, tagList, cmpVars, syncVars>>

NextDump == DumpStringCopy \/ DumpStringNoCopy \/ ReorderAttrib

SpecDump == InitDump /\ [][NextDump]_vars

----------------------------------------------------------------------------
(* Claims on dumpString *)

\* a step of dumpString leaves basis at "same" (noCopy=False) or "indented"
\* (noCopy=True); ReorderAttrib never does
CopyingCall == basis' = "same"

AnyCall == basis' \in {"same", "indented"}

\* C4: dumpString with copying enabled (noCopy=False) leaves every element
\* of the caller's tree as it was: text, tail, attrib items and their order,
\* and children.
C4_CopyLeavesTreeUnchanged == [][CopyingCall => heap' = heap]_vars

\* a copying call has returned on a tree that an in-place call would have
\* rewritten: the root has children, no text, and attributes out of order
C4_Witness ==
    /\ basis = "same"
    /\ ~canon
    /\ xStr # <<>>
    /\ Len(heap[root].children) > 0
    /\ heap[root].text = <<>>
    /\ heap[root].attrib = TwoAttribs

\* C5: once the tree has been canonicalized in place, another dumpString
\* call, copying or not, returns the string of the pass before and changes
\* no text, tail or attribute order of the tree.
C5_Idempotent == [][(canon /\ AnyCall) => (xStr' = xStr /\ heap' = heap)]_vars

\* a second call has returned on a tree that the in-place pass had indented
C5_Witness ==
    /\ canon
    /\ basis = "same"
    /\ Len(heap[root].children) = 2
    /\ heap[root].text = <<"\n", " ", " ">>
    /\ heap[heap[root].children[1]].tail = <<"\n", " ", " ">>

\* the attribute names of every tag of the string ascend strictly
AttributesAscend(s) ==
    \A k \in 1..Len(s) :
        \A j \in 1..(Len(s[k].attrs) - 1) :
            StrLess(s[k].attrs[j][1], s[k].attrs[j + 1][1])

\* C6: a tree that differs from the one dumped before only in the insertion
\* order of attributes gives the same string, and every tag of a returned
\* string has its attributes in ascending order of name.
C6_AttributeOrderIndependent ==
    [][AnyCall => /\ AttributesAscend(xStr')
                  /\ (basis = "attrs" => xStr' = xStr)]_vars

\* a call has returned on a tree whose attributes had been put in another
\* insertion order since the call before
C6_Witness ==
    /\ permuted
    /\ basis = "same"
    /\ ~canon
    /\ \E k \in 1..Len(xStr) : Len(xStr[k].attrs) = 2
    /\ heap[root].attrib = sorted(TwoAttribs)

----------------------------------------------------------------------------
(* insertBeforeElements *)

MaxInserts == 2

\* root.insert(index, insert) on the list of children (index counts from 0)
ListInsert(children, index, insert) ==
    SubSeq(children, 1, index) \o <<insert>>
        \o SubSeq(children, index + 1, Len(children))

\* the least element of a non-empty set of integers
min(S) == CHOOSE x \in S : \A y \in S : x <= y

\* tag in tagList
InList(tag, tags) == \E k \in 1..Len(tags) : tags[k] = tag

\* mutant of insertBeforeElements: the scan goes over every descendant
\* (findall('.//*')) and not only over the children
insertBeforeElements_descendants(h, r, insert, tl) ==
    IF ~tl.given \/ tl.tags = <<>>
    THEN [h EXCEPT ![r].children = Append(@, insert)]
    ELSE LET found == Tail(iter(h, r))
             insertIndices ==
                 {Len(h[r].children)}
                   \cup {i \in 0..(Len(found) - 1) :
                           InList(h[found[i + 1]].tag, tl.tags)}
         IN  [h EXCEPT ![r].children =
                 ListInsert(@, min(insertIndices), insert)]

\* the heap after insertBeforeElements(root, insert, tagList); tl.given is
\* false for tagList=None
insertBeforeElements(h, r, insert, tl) ==
    IF ~tl.given \/ tl.tags = <<>>
    THEN [h EXCEPT ![r].children = Append(@, insert)]
    ELSE LET found == h[r].children
             insertIndices ==
                 {Len(h[r].children)}
                   \cup {i \in 0..(Len(found) - 1) :
                           InList(h[found[i + 1]].tag, tl.tags)}
         IN  [h EXCEPT ![r].children = ListInsert(@, min(insertIndices), insert)]

ChildTags == {"sign", "line"}

\* None, [] and the lists of one or two tags
TagLists ==
    {[given |-> FALSE, tags |-> <<>>]}
      \cup {[given |-> TRUE, tags |-> t] :
              t \in StringsUpTo(ChildTags \cup {"foo"}, 2)}

InitInsert ==
    /\ heap \in {[h EXCEPT ![root].tag = "clef"] :
                   h \in UNION {Trees(n, ChildTags \X {<<>>} \X {<<>>} \X {<<>>}) :
                                  n \in 1..MaxNodes}}
    /\ tagList = [given |-> FALSE, tags |-> <<>>]
    /\ xStr = <<>>
    /\ basis = "none"
    /\ permuted = FALSE
    /\ canon = FALSE
    /\ IdleCompare
    /\ IdleSync

\* insert = El('<foo/>'); insertBeforeElements(root, insert, tagList=tl)
InsertBeforeElements ==
    \E tl \in TagLists :
        LET insert == Len(heap) + 1
            h == Append(heap, Element("foo", <<>>, <<>>, <<>>, <<>>))
        IN  /\ Cardinality({e \in 1..Len(heap) : heap[e].tag = "foo"}) < MaxInserts
            /\ heap' = insertBeforeElements(h, root, insert, tl)
            /\ tagList' = tl
            /\ UNCHANGED <<xStr, basis, permuted, canon, cmpVars, syncVars>>

NextInsert == InsertBeforeElements

SpecInsert == InitInsert /\ [][NextInsert]_vars

\* C3: the new child lands at the least index among n (the number of
\* children before the call) and the indices of the direct children whose
\* tag is in tagList, at n when tagList is empty or absent; root then has
\* n + 1 children, the old children keep their order, and nothing below the
\* children (their tags included) has any influence or is changed.
C3_InsertAtEarliestMatch ==
    [][ Len(heap') = Len(heap) + 1 =>
          LET old == heap[root].children
              new == heap'[root].children
              n == Len(old)
              insert == Len(heap')
              matches(k) == /\ tagList'.given
                            /\ InList(heap[old[k]].tag, tagList'.tags)
              pos == CHOOSE k \in 1..(n + 1) : new[k] = insert
          IN  /\ Len(new) = n + 1
              /\ Cardinality({k \in 1..(n + 1) : new[k] = insert}) = 1
              /\ \A k \in 1..(pos - 1) : new[k] = old[k] /\ ~matches(k)
              /\ \A k \in pos..n : new[k + 1] = old[k]
              /\ pos <= n => matches(pos)
              /\ \A e \in 1..Len(heap) : e # root => heap'[e] = heap[e]
              /\ heap'[root] = [heap[root] EXCEPT !.children = new]
      ]_vars

\* the doctest: foo was put between sign and line for tagList=['line']
C3_Witness ==
    /\ tagList = [given |-> TRUE, tags |-> <<"line">>]
    /\ Len(heap) = 4
    /\ heap[root].children = <<2, 4, 3>>
    /\ heap[2].tag = "sign"
    /\ heap[3].tag = "line"
    /\ heap[4].tag = "foo"

----------------------------------------------------------------------------
(* synchronizeIdsToXML *)

IsAlpha(c) == c \in {"a", "b", "x"}

\* xmlObjects.isValidXSDID: a str that starts with a letter or underscore
\* and holds only letters, digits, '_', '-' and '.'
isValidXSDID(text) ==
    /\ text.t = "str"
    /\ text.v # <<>>
    /\ (IsAlpha(text.v[1]) \/ text.v[1] = "_")
    /\ \A k \in 1..Len(text.v) :
          IsAlpha(text.v[k]) \/ IsNumeric(text.v[k]) \/ text.v[k] \in {"_", "-", "."}

\* mutant of synchronizeIdsToXML: any str id is written, valid or not
synchronizeIdsToXML_unchecked(element, obj) ==
    IF obj.kind # "ProtoM21Object" THEN [xml |-> element, raised |-> "none"]
    ELSE IF ~obj.hasId THEN [xml |-> element, raised |-> "none"]
    ELSE IF obj.id.t # "str" THEN [xml |-> element, raised |-> "none"]
    ELSE [xml |-> [element EXCEPT ![idAttr] = Attr(obj.id.v)], raised |-> "none"]

\* element.attrib after synchronizeIdsToXML(element, m21Object), and the
\* exception raised.  obj.kind is "ProtoM21Object" for an instance of
\* prebase.ProtoM21Object, "object" for any other object, "None" for None.
synchronizeIdsToXML(element, obj) ==
    IF obj.kind # "ProtoM21Object" THEN [xml |-> element, raised |-> "none"]
    ELSE IF ~obj.hasId THEN [xml |-> element, raised |-> "none"]
    ELSE LET m21Id == obj.id
         IN  IF m21Id = PyNone THEN [xml |-> element, raised |-> "none"]
             ELSE IF ~isValidXSDID(m21Id) THEN [xml |-> element, raised |-> "none"]
             ELSE [xml |-> [element EXCEPT ![idAttr] = Attr(m21Id.v)],
                   raised |-> "none"]

IdChars == {"a", "1", "_", " "}

\* the values of .id: None, the integer a Music21Object has by default, and
\* the strings over IdChars
IdVals ==
    {PyNone, PyInt(4)} \cup {PyStr(chars) : chars \in StringsUpTo(IdChars, MaxLen)}

\* None, objects without an id attribute, and objects with one
IdObjects ==
    {NoObject}
      \cup {[kind |-> k, hasId |-> FALSE, id |-> PyNone] :
              k \in {"ProtoM21Object", "object"}}
      \cup {[kind |-> k, hasId |-> TRUE, id |-> i] :
              k \in {"ProtoM21Object", "object"}, i \in IdVals}

InitIds ==
    /\ m21Object \in IdObjects
    /\ xmlElAttrib \in {[a \in AttrNames |-> IF a = idAttr THEN prior ELSE NoAttr] :
                          prior \in {NoAttr, Attr(<<"x">>)}}
    /\ m21El = [f \in FieldNames |-> NoField]
    /\ fresh = [f \in FieldNames |-> NoField]
    /\ calls = [ids |-> FALSE, push |-> NoCall, pull |-> NoCall]
    /\ raised = "none"
    /\ invoked = FALSE
    /\ IdleCompare
    /\ IdleTree

SynchronizeIdsToXML ==
    LET r == synchronizeIdsToXML(xmlElAttrib, m21Object)
    IN  /\ ~calls.ids
        /\ xmlElAttrib' = r.xml
        /\ raised' = r.raised
        /\ calls' = [calls EXCEPT !.ids = TRUE]
        /\ UNCHANGED <<m21Object, m21El, fresh, invoked, cmpVars, treeVars>>

NextIds == SynchronizeIdsToXML

SpecIds == InitIds /\ [][NextIds]_vars

----------------------------------------------------------------------------
(* setM21AttributeFromAttribute and setXMLAttributeFromAttribute *)

\* str(n) for an int n >= 0
RECURSIVE IntToDigits(_)
IntToDigits(n) ==
    IF n < 10 THEN <<DigitChars[n + 1]>>
    ELSE IntToDigits(n \div 10) \o <<DigitChars[(n % 10) + 1]>>

\* str(value)
str(value) ==
    CASE value.t = "str" -> value.v
      [] value.t = "int" -> IntToDigits(value.v)
      [] value.t = "bool" -> (IF value.v THEN <<"T", "r", "u", "e">>
                              ELSE <<"F", "a", "l", "s", "e">>)
      [] value.t = "NoneType" -> <<"N", "o", "n", "e">>

\* what a call of a transform does: it returns a value or raises
Returns(val) == [err |-> "none", val |-> val]

Raises(e) == [err |-> e, val |-> PyNone]

\* int(value); the strings it meets here have no sign and no blanks
int(value) ==
    CASE value.t = "int" -> Returns(value)
      [] value.t = "bool" -> Returns(PyInt(IF value.v THEN 1 ELSE 0))
      [] value.t = "str" ->
            (IF value.v # <<>> /\ \A k \in 1..Len(value.v) : IsNumeric(value.v[k])
             THEN Returns(PyInt(DigitsToInt(value.v)))
             ELSE Raises("ValueError"))
      [] value.t = "NoneType" -> Raises("TypeError")

\* transform(value) for the transforms int and str
call(transform, value) ==
    IF transform = "int" THEN int(value) ELSE Returns(PyStr(str(value)))

Transforms == {"None", "int", "str"}

\* str.upper() on the letters that follow a hyphen in the attribute names
Upper(c) == CASE c = "n" -> "N" [] c = "p" -> "P" [] OTHER -> c

\* common.hyphenToCamelCase: 'page-number' -> 'pageNumber'
RECURSIVE hyphenToCamelCase(_)
hyphenToCamelCase(usrStr) ==
    IF usrStr = <<>> THEN <<>>
    ELSE IF Head(usrStr) = "-" /\ Len(usrStr) > 1
         THEN <<Upper(usrStr[2])>> \o hyphenToCamelCase(SubSeq(usrStr, 3, Len(usrStr)))
         ELSE <<Head(usrStr)>> \o hyphenToCamelCase(Tail(usrStr))

\* the optional attributeName argument: given is false for None
NoName == [given |-> FALSE, name |-> <<>>]

Name(n) == [given |-> TRUE, name |-> n]

\* mutant of setXMLAttributeFromAttribute: a falsy value (0, '', False) is
\* skipped like None
setXMLAttributeFromAttribute_falsy(obj, xml, xmlAttributeName, attributeName, transform) ==
    LET name == IF ~attributeName.given
                THEN hyphenToCamelCase(xmlAttributeName)
                ELSE attributeName.name
        value == IF obj[name].has THEN obj[name].val ELSE PyNone
        r == IF transform # "None" THEN call(transform, value) ELSE Returns(value)
    IN  IF value \in {PyNone, PyInt(0), PyStr(<<>>), PyBool(FALSE)}
        THEN [xml |-> xml, raised |-> "none", invoked |-> FALSE]
        ELSE IF r.err # "none"
        THEN [xml |-> xml, raised |-> r.err, invoked |-> TRUE]
        ELSE [xml |-> [xml EXCEPT ![xmlAttributeName] = Attr(str(r.val))],
              raised |-> "none", invoked |-> transform # "None"]

\* xmlEl.attrib after setXMLAttributeFromAttribute(m21El, xmlEl,
\* xmlAttributeName, attributeName, transform), the exception that came out
\* of the transform, and whether the transform was invoked
setXMLAttributeFromAttribute(obj, xml, xmlAttributeName, attributeName, transform) ==
    LET name == IF ~attributeName.given
                THEN hyphenToCamelCase(xmlAttributeName)
                ELSE attributeName.name
        value == IF obj[name].has THEN obj[name].val ELSE PyNone
        r == IF transform # "None" THEN call(transform, value) ELSE Returns(value)
    IN  IF value = PyNone
        THEN [xml |-> xml, raised |-> "none", invoked |-> FALSE]
        ELSE IF r.err # "none"
        THEN [xml |-> xml, raised |-> r.err, invoked |-> TRUE]
        ELSE [xml |-> [xml EXCEPT ![xmlAttributeName] = Attr(str(r.val))],
              raised |-> "none", invoked |-> transform # "None"]

\* mutant of setM21AttributeFromAttribute: a missing attribute is not
\* returned from, and the None that xmlEl.get gave is processed
setM21AttributeFromAttribute_noreturn(obj, xml, xmlAttributeName, attributeName, transform) ==
    LET value == IF xml[xmlAttributeName].set
                 THEN PyStr(xml[xmlAttributeName].v) ELSE PyNone
        r == IF transform # "None" THEN call(transform, value) ELSE Returns(value)
        name == IF ~attributeName.given
                THEN hyphenToCamelCase(xmlAttributeName)
                ELSE attributeName.name
    IN  IF r.err # "none"
        THEN [m21 |-> obj, raised |-> r.err, invoked |-> TRUE]
        ELSE [m21 |-> [obj EXCEPT ![name] = Field(r.val)],
              raised |-> "none", invoked |-> transform # "None"]

\* the fields of m21El after setM21AttributeFromAttribute(m21El, xmlEl,
\* xmlAttributeName, attributeName, transform), the exception that came
\* out of the transform, and whether the transform was invoked
setM21AttributeFromAttribute(obj, xml, xmlAttributeName, attributeName, transform) ==
    LET value == PyStr(xml[xmlAttributeName].v)
        r == IF transform # "None" THEN call(transform, value) ELSE Returns(value)
        name == IF ~attributeName.given
                THEN hyphenToCamelCase(xmlAttributeName)
                ELSE attributeName.name
    IN  IF ~xml[xmlAttributeName].set
        THEN [m21 |-> obj, raised |-> "none", invoked |-> FALSE]
        ELSE IF r.err # "none"
        THEN [m21 |-> obj, raised |-> r.err, invoked |-> TRUE]
        ELSE [m21 |-> [obj EXCEPT ![name] = Field(r.val)],
              raised |-> "none", invoked |-> transform # "None"]

\* the values a field holds before the calls
FieldVals ==
    {PyNone, PyInt(0), PyInt(4), PyBool(TRUE),
     PyStr(<<>>), PyStr(<<"4">>), PyStr(<<"y", "e", "s">>)}

SyncAttrs == {pageNumberAttr, newPageAttr}

AttributeNames == {NoName, Name(pageNumber), Name(isNew)}

InitSync ==
    /\ m21El \in {[f \in FieldNames |->
                     CASE f = pageNumber -> pn [] f = isNew -> nw [] OTHER -> NoField] :
                   pn \in {NoField} \cup {Field(val) : val \in FieldVals},
                   nw \in {NoField, Field(PyBool(TRUE))}}
    /\ fresh \in {[f \in FieldNames |->
                     CASE f = pageNumber -> pn [] f = isNew -> nw [] OTHER -> NoField] :
                   pn \in {NoField, Field(PyStr(<<"7">>))},
                   nw \in {NoField, Field(PyStr(<<"7">>))}}
    /\ xmlElAttrib \in {[a \in AttrNames |->
                           IF a = pageNumberAttr THEN prior ELSE NoAttr] :
                         prior \in {NoAttr, Attr(<<>>), Attr(<<"7">>)}}
    /\ m21Object = NoObject
    /\ calls = [ids |-> FALSE, push |-> NoCall, pull |-> NoCall]
    /\ raised = "none"
    /\ invoked = FALSE
    /\ IdleCompare
    /\ IdleTree

CallsMade == (IF calls.push.made THEN 1 ELSE 0) + (IF calls.pull.made THEN 1 ELSE 0)

Call(a, n, tr) ==
    [made |-> TRUE, seq |-> CallsMade + 1, attr |-> a, field |-> n.name,
     named |-> n.given, transform |-> tr]

\* setXMLAttributeFromAttribute(m21El, xmlEl, a, n, transform=tr)
SetXMLAttributeFromAttribute ==
    \E a \in SyncAttrs, n \in AttributeNames, tr \in Transforms :
        LET r == setXMLAttributeFromAttribute(m21El, xmlElAttrib, a, n, tr)
        IN  /\ ~calls.push.made
            /\ xmlElAttrib' = r.xml
            /\ raised' = r.raised
            /\ invoked' = r.invoked
            /\ calls' = [calls EXCEPT !.push = Call(a, n, tr)]
            /\ UNCHANGED <<m21Object, m21El, fresh, cmpVars, treeVars>>

\* setM21AttributeFromAttribute(fresh, xmlEl, a, n, transform=tr)
SetM21AttributeFromAttribute ==
    \E a \in SyncAttrs, n \in AttributeNames, tr \in Transforms :
        LET r == setM21AttributeFromAttribute(fresh, xmlElAttrib, a, n, tr)
        IN  /\ ~calls.pull.made
            /\ fresh' = r.m21
            /\ raised' = r.raised
            /\ invoked' = r.invoked
            /\ calls' = [calls EXCEPT !.pull = Call(a, n, tr)]
            /\ UNCHANGED <<m21Object, m21El, xmlElAttrib, cmpVars, treeVars>>

NextSync == SetXMLAttributeFromAttribute \/ SetM21AttributeFromAttribute

SpecSync == InitSync /\ [][NextSync]_vars

----------------------------------------------------------------------------
(* Claims on the attribute synchronizers *)

\* the field a call is about: the one named, or the camel-cased attribute
FieldOf(c) ==
    IF c.named THEN c.field
    ELSE IF c.attr = pageNumberAttr THEN pageNumber ELSE newPage

\* transform(value), or value when no transform is given
Through(transform, value) ==
    IF transform = "None" THEN Returns(value) ELSE call(transform, value)

\* C8: a field value v other than None, pushed with transform f and pulled
\* back into a fresh object with a transform g such that g(str(f(v))) == v,
\* under the same attribute name and the same (given or derived) field
\* name, leaves the fresh object's field equal to v.
C8_RoundTrip ==
    LET ps == calls.push
        pl == calls.pull
        v == m21El[FieldOf(ps)].val
        f == Through(ps.transform, v)
        g == Through(pl.transform, PyStr(str(f.val)))
    IN  ( /\ ps.made /\ pl.made /\ ps.seq < pl.seq
          /\ ps.attr = pl.attr /\ ps.named = pl.named /\ ps.field = pl.field
          /\ m21El[FieldOf(ps)].has /\ v # PyNone
          /\ f.err = "none" /\ g.err = "none" /\ PyEq(g.val, v) )
        => /\ fresh[FieldOf(pl)].has
           /\ PyEq(fresh[FieldOf(pl)].val, v)

\* the falsy value 0 went out as '0' and came back through int as 0
C8_Witness ==
    /\ calls.push.made /\ calls.pull.made /\ calls.push.seq < calls.pull.seq
    /\ calls.push.attr = pageNumberAttr /\ calls.pull.attr = pageNumberAttr
    /\ ~calls.push.named /\ ~calls.pull.named
    /\ calls.push.transform = "None" /\ calls.pull.transform = "int"
    /\ m21El[pageNumber] = Field(PyInt(0))
    /\ fresh[pageNumber] = Field(PyInt(0))

\* C9: a pull of an attribute the element does not have changes no field of
\* the object, invokes no transform and raises nothing; an attribute
\* present with the value '' is processed: its (transformed) value is set on
\* the target field, or the transform's exception comes out.
C9_AbsentIsNoOp ==
    [][ (calls'.pull.made /\ ~calls.pull.made) =>
          LET pl == calls'.pull
              target == FieldOf(pl)
          IN  /\ ~xmlElAttrib[pl.attr].set =>
                    (fresh' = fresh /\ ~invoked' /\ raised' = "none")
              /\ xmlElAttrib[pl.attr] = Attr(<<>>) =>
                    /\ \A fn \in FieldNames \ {target} : fresh'[fn] = fresh[fn]
                    /\ IF pl.transform = "int"
                       THEN invoked' /\ raised' = "ValueError" /\ fresh' = fresh
                       ELSE raised' = "none" /\ fresh'[target] = Field(PyStr(<<>>))
      ]_vars

\* a pull with a transform of the missing new-page attribute has returned
\* and the prior value of the target field is still there
C9_Witness ==
    /\ calls.pull.made /\ ~calls.push.made
    /\ calls.pull.attr = newPageAttr
    /\ calls.pull.named /\ calls.pull.field = isNew
    /\ calls.pull.transform = "int"
    /\ ~xmlElAttrib[newPageAttr].set
    /\ fresh[isNew] = Field(PyStr(<<"7">>))
    /\ ~invoked

====
